---- MODULE Spec2Model ----
(***************************************************************************)
(* Model of the hyper-ring broadcast ring buffer (src/src/ringbuffer.rs).  *)
(* One container (SPRingBuffer or MPRingBuffer, chosen in Init), its       *)
(* writer handles (RBWriter / RBWriterClonable) and its readers            *)
(* (RBReader).  Every atomic access to a shared counter is its own step,   *)
(* so that the interleavings of concurrent threads are explored.           *)
(***************************************************************************)
EXTENDS Integers, Sequences, FiniteSets, Bags, TLC

\* ------------------------------------------------------------------ bounds
LogN == 1          \* capacity exponent: N = 2^LogN (N must be a power of two)
MaxPuts == 3       \* total number of put calls in a run
MaxHandles == 3    \* reader and writer handles ever created, together
MaxMarks == 2      \* explicit mark_as_finished calls per writer handle
NarrowBits == 2    \* width of usize in the runs that reach its maximum

\* --------------------------------------------------------------- constants
USIZE_MAX == 2147483647   \* usize::MAX of a wide target (never reached)
Uninit == -1              \* a slot no put has written (MaybeUninit::uninit)
Garbage == 0              \* a value that no put wrote

RECURSIVE Pow2(_)
Pow2(k) == IF k = 0 THEN 1 ELSE 2 * Pow2(k - 1)

N == Pow2(LogN)

Writers == 1..(MaxHandles - 1)   \* a split makes one reader and one writer
Readers == 1..(MaxHandles - 1)
Slots == 0..(N - 1)

VARIABLES
    variant,            \* "SP" (SPRingBuffer) or "MP" (MPRingBuffer)
    debug_assertions,   \* cfg!(debug_assertions) of the build
    usize_max,          \* usize::MAX of the build's target
    data,               \* data: [ValueBox<T>; N]
    next_write,         \* next_write
    next_readable,      \* next_readable
    is_finished,        \* SPRingBuffer.is_finished
    producer_count,     \* MPRingBuffer.producer_count
    finish_count,       \* MPRingBuffer.finish_count
    wstate,             \* writer handle: "none", "alive", "dropped"
    finished,           \* RBWriter.finished / RBWriterClonable.finished
    wpc,                \* position of the handle's thread inside put
    curr_write_pos,     \* local of put
    next_write_pos,     \* local of MPRingBuffer::put
    wvalue,             \* argument of the put in progress
    wmarks,             \* explicit mark_as_finished calls made on the handle
    rstate,             \* reader: "none", "alive"
    cursor,             \* RBReader.cursor
    rpc,                \* position of the reader's thread inside next/is_finished
    r_count,            \* local producer_count of MPRingBuffer::is_finished
    rret,               \* what the reader's last call returned: next() "empty"
                        \* or "value", is_finished() "true" or "false"
    robs,               \* values returned by the reader's successful next() calls
    rdrained,           \* the reader's last call is an is_finished(), and in
                        \* every state since it began all writers ever created
                        \* were destroyed and cursor = next_readable
    produced,           \* values passed to put, in call order
    completed,          \* number of put calls that have run to their end
    late_put,           \* a put was called on a handle already marked finished
    quiesced            \* at some instant since the first split every writer
                        \* handle in existence had finished

vars == <<variant, debug_assertions, usize_max, data, next_write, next_readable,
          is_finished, producer_count, finish_count, wstate, finished, wpc,
          curr_write_pos, next_write_pos, wvalue, wmarks,
          rstate, cursor, rpc, r_count, rret, robs, rdrained,
          produced, completed, late_put, quiesced>>

containerVars == <<data, next_write, next_readable, is_finished,
                   producer_count, finish_count>>
writerVars == <<wstate, finished, wpc, curr_write_pos, next_write_pos,
                wvalue, wmarks>>
readerVars == <<rstate, cursor, rpc, r_count, rret, robs, rdrained>>
buildVars == <<variant, debug_assertions, usize_max>>

\* usize::MAX of a target whose usize is NarrowBits wide
NARROW_MAX == Pow2(NarrowBits) - 1

\* the number of put calls in a run: MaxPuts, and on the narrow target as
\* many as take next_write to usize::MAX and one put beyond
PutBudget == IF usize_max = USIZE_MAX THEN MaxPuts ELSE usize_max + 1

Values == 1..PutBudget   \* the values put (see NextValue)

\* ---------------------------------------------------------- pure functions
RECURSIVE BitAnd(_, _)
\* a & b on non-negative integers
BitAnd(a, b) ==
    IF a = 0 \/ b = 0 THEN 0
    ELSE (a % 2) * (b % 2) + 2 * BitAnd(a \div 2, b \div 2)

\* mutant: the position is clamped to the last slot instead of wrapped
SlotIndex_Clamp(pos) == IF pos < N THEN pos ELSE N - 1

\* data.get_unchecked(pos & (N - 1))
SlotIndex(pos) == BitAnd(pos, N - 1)

\* mutant: the reservation does not advance the write counter
SaturatingAdd1_NoAdvance(x) == x

\* mutant: the reservation wraps around instead of saturating
SaturatingAdd1_Wrapping(x) == IF x = usize_max THEN 0 ELSE x + 1

\* usize::saturating_add(x, 1)
SaturatingAdd1(x) == IF x = usize_max THEN usize_max ELSE x + 1

\* AtomicUsize::fetch_add(1): the counter wraps around on overflow
WrappingAdd1(x) == IF x = usize_max THEN 0 ELSE x + 1

\* mutant: retrieve never reports an empty buffer
RetrieveIsNone_Never(c, nr) == FALSE

\* mutant: the bound check of retrieve off by one
RetrieveIsNone_OffByOne(c, nr) == c > nr

\* retrieve: `if cursor >= next_readable { return None }`
RetrieveIsNone(c, nr) == c >= nr

\* mutant: the comparison of the two counters off by one
MPIsFinished_OffByOne(pcount, fcount) == fcount + 1 = pcount

\* MPRingBuffer::is_finished: finish_count == producer_count
MPIsFinished(pcount, fcount) == fcount = pcount

\* mutant: the reader's is_finished ignores its cursor
ReaderIsFinished_NoCursor(c, nr) == TRUE

\* RBReader::is_finished: container finished && cursor == next_readable()
ReaderIsFinished(c, nr) == c = nr

\* mutant: the guard of mark_as_finished inverted
MarkGuard_Inverted(f) == f

\* mutant: mark_as_finished without its guard
MarkGuard_Always(f) == TRUE

\* mark_as_finished of a handle: `if !self.finished`
MarkGuard(f) == ~f

\* mutant: a cloned reader copies the cursor of its source
CloneCursor_Copy(src_cursor) == src_cursor

\* Clone for RBReader: cursor: 0
CloneCursor(src_cursor) == 0

\* ValueBox::get on a slot: reading a slot never written is undefined;
\* the read yields an arbitrary value.
SlotReads(slot) ==
    IF data[slot] = Uninit THEN Values \cup {Garbage} ELSE {data[slot]}

\* ---------------------------------------------------------------- helpers
WritersEver == {w \in Writers : wstate[w] # "none"}
ReadersEver == {r \in Readers : rstate[r] # "none"}
FreeWriter == Cardinality(WritersEver) + 1
FreeReader == Cardinality(ReadersEver) + 1
HandlesEver == Cardinality(WritersEver) + Cardinality(ReadersEver)
UnfinishedWriters == {w \in Writers : wstate[w] = "alive" /\ ~finished[w]}
AllWritersDestroyed ==
    /\ WritersEver # {}
    /\ \A w \in WritersEver : wstate[w] = "dropped"

\* ------------------------------------------------------------------- Init
\* the state after `new()` on a target whose usize::MAX is max
Boot(max) ==
    /\ variant \in {"SP", "MP"}
    /\ usize_max = max
    \* only SPRingBuffer::put reads cfg!(debug_assertions): for the MP
    \* container one build stands for both
    /\ debug_assertions \in (IF variant = "SP" THEN BOOLEAN ELSE {FALSE})
    /\ data = [s \in Slots |-> Uninit]
    /\ next_write = 0
    /\ next_readable = 0
    /\ is_finished = FALSE
    /\ producer_count = 0
    /\ finish_count = 0
    /\ wstate = [w \in Writers |-> "none"]
    /\ finished = [w \in Writers |-> FALSE]
    /\ wpc = [w \in Writers |-> "idle"]
    /\ curr_write_pos = [w \in Writers |-> 0]
    /\ next_write_pos = [w \in Writers |-> 0]
    /\ wvalue = [w \in Writers |-> 0]
    /\ wmarks = [w \in Writers |-> 0]
    /\ rstate = [r \in Readers |-> "none"]
    /\ cursor = [r \in Readers |-> 0]
    /\ rpc = [r \in Readers |-> "idle"]
    /\ r_count = [r \in Readers |-> 0]
    /\ rret = [r \in Readers |-> "none"]
    /\ robs = [r \in Readers |-> <<>>]
    /\ rdrained = [r \in Readers |-> FALSE]
    /\ produced = <<>>
    /\ completed = 0
    /\ late_put = FALSE
    /\ quiesced = FALSE

Init == Boot(USIZE_MAX)

\* ----------------------------------------------------------------- split
\* SPRingBuffer::split / MPRingBuffer::split: one reader (cursor 0) and one
\* writer (finished: false); the MP variant registers the producer first.
\* The SP container is split once: its writer is the sole writer the SP
\* protocol is written for.
Split ==
    /\ HandlesEver + 2 <= MaxHandles
    /\ variant = "SP" => WritersEver = {}
    /\ producer_count' = IF variant = "MP" THEN producer_count + 1
                         ELSE producer_count
    /\ rstate' = [rstate EXCEPT ![FreeReader] = "alive"]
    /\ cursor' = [cursor EXCEPT ![FreeReader] = 0]
    /\ wstate' = [wstate EXCEPT ![FreeWriter] = "alive"]
    /\ finished' = [finished EXCEPT ![FreeWriter] = FALSE]
    /\ rdrained' = [r \in Readers |-> FALSE]
    /\ UNCHANGED <<buildVars, data, next_write, next_readable, is_finished,
                   finish_count, wpc, curr_write_pos, next_write_pos, wvalue,
                   wmarks, rpc, r_count, rret, robs, produced, completed,
                   late_put, quiesced>>

\* mutant: the clone of a writer handle does not register as a producer
CloneWriter_NoRegister(w) ==
    /\ variant = "MP"
    /\ wstate[w] = "alive"
    /\ wpc[w] = "idle"
    /\ HandlesEver < MaxHandles
    /\ wstate' = [wstate EXCEPT ![FreeWriter] = "alive"]
    /\ finished' = [finished EXCEPT ![FreeWriter] = FALSE]
    /\ UNCHANGED <<buildVars, containerVars, wpc, curr_write_pos,
                   next_write_pos, wvalue, wmarks, readerVars, produced,
                   completed, late_put, quiesced>>

\* Clone for RBWriterClonable: producer_count.fetch_add(1), finished: false
CloneWriter(w) ==
    /\ variant = "MP"
    /\ wstate[w] = "alive"
    /\ wpc[w] = "idle"
    /\ HandlesEver < MaxHandles
    /\ producer_count' = producer_count + 1
    /\ wstate' = [wstate EXCEPT ![FreeWriter] = "alive"]
    /\ finished' = [finished EXCEPT ![FreeWriter] = FALSE]
    /\ UNCHANGED <<buildVars, data, next_write, next_readable, is_finished,
                   finish_count, wpc, curr_write_pos, next_write_pos, wvalue,
                   wmarks, readerVars, produced, completed, late_put,
                   quiesced>>

\* Clone for RBReader
CloneReader(r) ==
    /\ rstate[r] = "alive"
    /\ rpc[r] = "idle"
    /\ HandlesEver < MaxHandles
    /\ rstate' = [rstate EXCEPT ![FreeReader] = "alive"]
    /\ cursor' = [cursor EXCEPT ![FreeReader] = CloneCursor(cursor[r])]
    /\ UNCHANGED <<buildVars, containerVars, writerVars, rpc, r_count, rret,
                   robs, rdrained, produced, completed, late_put, quiesced>>

\* ------------------------------------------------------------------- put
\* The buffer only moves values (T: Sized + Clone is never inspected), so
\* the k-th put call of a run passes the value k: every loss, duplication
\* and reordering of values is then visible in what a reader collects.
NextValue == Len(produced) + 1

\* RBWriter::put / RBWriterClonable::put entering the container's put:
\* SP  `let curr_write_pos = self.next_write.get()`
\* MP  `let mut curr_write_pos = self.next_write.load(Acquire);
\*      let mut next_write_pos = curr_write_pos.saturating_add(1)`
PutBegin(w) ==
    /\ wstate[w] = "alive"
    /\ wpc[w] = "idle"
    /\ Len(produced) < PutBudget
    /\ wvalue' = [wvalue EXCEPT ![w] = NextValue]
    /\ curr_write_pos' = [curr_write_pos EXCEPT ![w] = next_write]
    /\ next_write_pos' = [next_write_pos EXCEPT ![w] =
                            IF variant = "MP" THEN SaturatingAdd1(next_write)
                            ELSE @]
    /\ wpc' = [wpc EXCEPT ![w] = IF variant = "SP" THEN "set" ELSE "cas"]
    /\ produced' = Append(produced, NextValue)
    /\ late_put' = (late_put \/ finished[w])
    /\ UNCHANGED <<buildVars, containerVars, wstate, finished, wmarks,
                   readerVars, completed, quiesced>>

\* mutant: the SP put stores the position it read back into next_write
SPReserve_NoAdvance(w) ==
    /\ variant = "SP"
    /\ wpc[w] = "set"
    /\ next_write' = curr_write_pos[w]
    /\ wpc' = [wpc EXCEPT ![w] = "write"]
    /\ UNCHANGED <<buildVars, data, next_readable, is_finished,
                   producer_count, finish_count, wstate, finished,
                   curr_write_pos, next_write_pos, wvalue, wmarks,
                   readerVars, produced, completed, late_put, quiesced>>

\* SP: `self.next_write.set(curr_write_pos + 1)`
SPReserve(w) ==
    /\ variant = "SP"
    /\ wpc[w] = "set"
    /\ next_write' = curr_write_pos[w] + 1
    /\ wpc' = [wpc EXCEPT ![w] = "write"]
    /\ UNCHANGED <<buildVars, data, next_readable, is_finished,
                   producer_count, finish_count, wstate, finished,
                   curr_write_pos, next_write_pos, wvalue, wmarks,
                   readerVars, produced, completed, late_put, quiesced>>

\* mutant: the reservation stores next_write_pos without comparing
MPReserve_NoCompare(w) ==
    /\ variant = "MP"
    /\ wpc[w] = "cas"
    /\ next_write' = next_write_pos[w]
    /\ wpc' = [wpc EXCEPT ![w] = "write"]
    /\ UNCHANGED <<buildVars, data, next_readable, is_finished,
                   producer_count, finish_count, wstate, finished, wvalue,
                   curr_write_pos, next_write_pos, wmarks, readerVars,
                   produced, completed, late_put, quiesced>>

\* mutant: a failed compare_exchange does not take the value it found
MPReserve_NoReload(w) ==
    /\ variant = "MP"
    /\ wpc[w] = "cas"
    /\ next_write = curr_write_pos[w]
    /\ next_write' = next_write_pos[w]
    /\ wpc' = [wpc EXCEPT ![w] = "write"]
    /\ UNCHANGED <<buildVars, data, next_readable, is_finished,
                   producer_count, finish_count, wstate, finished, wvalue,
                   curr_write_pos, next_write_pos, wmarks, readerVars,
                   produced, completed, late_put, quiesced>>

\* MP: one iteration of `while let Err(e) = next_write.compare_exchange(..)`
MPReserve(w) ==
    /\ variant = "MP"
    /\ wpc[w] = "cas"
    /\ IF next_write = curr_write_pos[w]
       THEN /\ next_write' = next_write_pos[w]
            /\ wpc' = [wpc EXCEPT ![w] = "write"]
            /\ UNCHANGED <<curr_write_pos, next_write_pos>>
       ELSE /\ curr_write_pos' = [curr_write_pos EXCEPT ![w] = next_write]
            /\ next_write_pos' = [next_write_pos EXCEPT ![w] =
                                    SaturatingAdd1(next_write)]
            /\ UNCHANGED <<next_write, wpc>>
    /\ UNCHANGED <<buildVars, data, next_readable, is_finished,
                   producer_count, finish_count, wstate, finished, wvalue,
                   wmarks, readerVars, produced, completed, late_put,
                   quiesced>>

\* both: `self.data.get_unchecked(curr_write_pos & (N - 1)).write(value)`
WriteSlot(w) ==
    /\ wpc[w] = "write"
    /\ data' = [data EXCEPT ![SlotIndex(curr_write_pos[w])] = wvalue[w]]
    /\ wpc' = [wpc EXCEPT ![w] = "publish"]
    /\ UNCHANGED <<buildVars, next_write, next_readable, is_finished,
                   producer_count, finish_count, wstate, finished,
                   curr_write_pos, next_write_pos, wvalue, wmarks,
                   readerVars, produced, completed, late_put, quiesced>>

\* both: `self.next_readable.fetch_add(1, Release)`; the SP debug build
\* asserts the value fetched, and a failed assertion unwinds the writer's
\* thread, which drops the handle.
Publish(w) ==
    /\ wpc[w] = "publish"
    /\ next_readable' = WrappingAdd1(next_readable)
    /\ wpc' = [wpc EXCEPT ![w] = "idle"]
    /\ IF variant = "SP" /\ debug_assertions
          /\ next_readable # curr_write_pos[w]
       THEN /\ wstate' = [wstate EXCEPT ![w] = "dropped"]
            /\ finished' = [finished EXCEPT ![w] = TRUE]
            /\ is_finished' = (is_finished \/ MarkGuard(finished[w]))
       ELSE UNCHANGED <<wstate, finished, is_finished>>
    /\ curr_write_pos' = [curr_write_pos EXCEPT ![w] = 0]
    /\ next_write_pos' = [next_write_pos EXCEPT ![w] = 0]
    /\ wvalue' = [wvalue EXCEPT ![w] = 0]
    /\ completed' = completed + 1
    /\ quiesced' = (quiesced \/ UnfinishedWriters' = {})
    /\ UNCHANGED <<buildVars, data, next_write, producer_count, finish_count,
                   wmarks, readerVars, produced, late_put>>

\* ------------------------------------------------------ finish signalling
\* RBWriter::mark_as_finished / RBWriterClonable::mark_as_finished, then the
\* container's mark_as_finished (SP: store true; MP: finish_count.fetch_add)
MarkEffect(w) ==
    /\ finished' = [finished EXCEPT ![w] = TRUE]
    /\ is_finished' = IF variant = "SP" /\ MarkGuard(finished[w]) THEN TRUE
                      ELSE is_finished
    /\ finish_count' = IF variant = "MP" /\ MarkGuard(finished[w])
                       THEN finish_count + 1 ELSE finish_count

\* an explicit call of mark_as_finished
MarkAsFinished(w) ==
    /\ wstate[w] = "alive"
    /\ wpc[w] = "idle"
    /\ wmarks[w] < MaxMarks
    /\ MarkEffect(w)
    /\ wmarks' = [wmarks EXCEPT ![w] = @ + 1]
    /\ UNCHANGED wstate
    /\ quiesced' = (quiesced \/ UnfinishedWriters' = {})
    /\ UNCHANGED <<buildVars, data, next_write, next_readable,
                   producer_count, wpc, curr_write_pos, next_write_pos,
                   wvalue, readerVars, produced, completed, late_put>>

\* Drop for RBWriter / RBWriterClonable: self.mark_as_finished()
DropWriter(w) ==
    /\ wstate[w] = "alive"
    /\ wpc[w] = "idle"
    /\ MarkEffect(w)
    /\ wstate' = [wstate EXCEPT ![w] = "dropped"]
    /\ quiesced' = (quiesced \/ UnfinishedWriters' = {})
    /\ UNCHANGED <<buildVars, data, next_write, next_readable,
                   producer_count, wpc, curr_write_pos, next_write_pos,
                   wvalue, wmarks, readerVars, produced, completed,
                   late_put>>

\* ----------------------------------------------------------------- reader
\* RBReader::next -> retrieve: `next_readable.load(Acquire)`; with
\* cursor >= next_readable it returns None and next() leaves the cursor alone
NextLoad(r) ==
    /\ rstate[r] = "alive"
    /\ rpc[r] = "idle"
    /\ IF RetrieveIsNone(cursor[r], next_readable)
       THEN /\ rret' = [rret EXCEPT ![r] = "empty"]
            /\ UNCHANGED rpc
       ELSE /\ rpc' = [rpc EXCEPT ![r] = "read"]
            /\ rret' = [rret EXCEPT ![r] = "none"]
    /\ rdrained' = [rdrained EXCEPT ![r] = FALSE]
    /\ UNCHANGED <<buildVars, containerVars, writerVars, rstate, cursor,
                   r_count, robs, produced, completed, late_put, quiesced>>

\* retrieve: `Some(data.get_unchecked(cursor & (N - 1)).get())`, then the
\* closure of next(): `self.cursor += 1`
NextRead(r) ==
    /\ rpc[r] = "read"
    /\ \E v \in SlotReads(SlotIndex(cursor[r])) :
          robs' = [robs EXCEPT ![r] = Append(@, v)]
    /\ cursor' = [cursor EXCEPT ![r] = @ + 1]
    /\ rret' = [rret EXCEPT ![r] = "value"]
    /\ rpc' = [rpc EXCEPT ![r] = "idle"]
    /\ UNCHANGED <<buildVars, containerVars, writerVars, rstate, r_count,
                   rdrained, produced, completed, late_put, quiesced>>

\* all writers ever created are destroyed and reader r has read everything
Drained(r) == AllWritersDestroyed /\ cursor[r] = next_readable

\* RBReader::is_finished, first load of the container's is_finished():
\* SP `is_finished.load(Acquire)`, MP `producer_count.load(Relaxed)`
IsFinishedBegin(r) ==
    /\ rstate[r] = "alive"
    /\ rpc[r] = "idle"
    /\ rdrained' = [rdrained EXCEPT ![r] = Drained(r)]
    /\ IF variant = "MP"
       THEN /\ r_count' = [r_count EXCEPT ![r] = producer_count]
            /\ rpc' = [rpc EXCEPT ![r] = "fin_count"]
            /\ rret' = [rret EXCEPT ![r] = "none"]
       ELSE /\ IF is_finished
               THEN /\ rpc' = [rpc EXCEPT ![r] = "fin_readable"]
                    /\ rret' = [rret EXCEPT ![r] = "none"]
               ELSE /\ rret' = [rret EXCEPT ![r] = "false"]
                    /\ UNCHANGED rpc
            /\ UNCHANGED r_count
    /\ UNCHANGED <<buildVars, containerVars, writerVars, rstate, cursor,
                   robs, produced, completed, late_put, quiesced>>

\* MPRingBuffer::is_finished: `finish_count.load(Acquire)` and the comparison
IsFinishedCount(r) ==
    /\ rpc[r] = "fin_count"
    /\ IF MPIsFinished(r_count[r], finish_count)
       THEN /\ rpc' = [rpc EXCEPT ![r] = "fin_readable"]
            /\ UNCHANGED rret
       ELSE /\ rret' = [rret EXCEPT ![r] = "false"]
            /\ rpc' = [rpc EXCEPT ![r] = "idle"]
    /\ r_count' = [r_count EXCEPT ![r] = 0]
    /\ rdrained' = [rdrained EXCEPT ![r] = @ /\ Drained(r)]
    /\ UNCHANGED <<buildVars, containerVars, writerVars, rstate, cursor,
                   robs, produced, completed, late_put, quiesced>>

\* RBReader::is_finished: `&& self.cursor == self.ring_buffer.next_readable()`
IsFinishedReadable(r) ==
    /\ rpc[r] = "fin_readable"
    /\ rret' = [rret EXCEPT ![r] =
                  IF ReaderIsFinished(cursor[r], next_readable) THEN "true"
                  ELSE "false"]
    /\ rpc' = [rpc EXCEPT ![r] = "idle"]
    /\ rdrained' = [rdrained EXCEPT ![r] = @ /\ Drained(r)]
    /\ UNCHANGED <<buildVars, containerVars, writerVars, rstate, cursor,
                   r_count, robs, produced, completed, late_put, quiesced>>

\* ------------------------------------------------------------------- Next
WriterStep(w) ==
    \/ PutBegin(w)
    \/ SPReserve(w)
    \/ MPReserve(w)
    \/ WriteSlot(w)
    \/ Publish(w)
    \/ MarkAsFinished(w)
    \/ DropWriter(w)
    \/ CloneWriter(w)

ReaderNext(r) == NextLoad(r) \/ NextRead(r)

ReaderIsFinishedStep(r) ==
    IsFinishedBegin(r) \/ IsFinishedCount(r) \/ IsFinishedReadable(r)

ReaderStep(r) == ReaderNext(r) \/ ReaderIsFinishedStep(r) \/ CloneReader(r)

Next ==
    \/ Split
    \/ \E w \in Writers : WriterStep(w)
    \/ \E r \in Readers : ReaderStep(r)

Spec == Init /\ [][Next]_vars

\* A further call of split(&self) on a container that was split before,
\* `let (_, writer) = ring_buffer.split();`: the caller keeps the writer of
\* the pair and lets the reader go (RBReader has no Drop).  Neither split
\* checks for an earlier one; the MP variant registers the producer.
SplitAgain ==
    /\ WritersEver # {}
    /\ HandlesEver < MaxHandles
    /\ producer_count' = IF variant = "MP" THEN producer_count + 1
                         ELSE producer_count
    /\ wstate' = [wstate EXCEPT ![FreeWriter] = "alive"]
    /\ finished' = [finished EXCEPT ![FreeWriter] = FALSE]
    /\ rdrained' = [r \in Readers |-> FALSE]
    /\ UNCHANGED <<buildVars, data, next_write, next_readable, is_finished,
                   finish_count, wpc, curr_write_pos, next_write_pos, wvalue,
                   wmarks, rstate, cursor, rpc, r_count, rret, robs,
                   produced, completed, late_put, quiesced>>

\* every sequence of the public operations, repeated splits included
ResplitNext == Next \/ SplitAgain

ResplitSpec == Init /\ [][ResplitNext]_vars

\* Fair scheduling of the threads: a put that has begun runs to its end, every
\* writer handle is eventually dropped, and a reader in its drain loop
\* (`while !reader.is_finished() { while let Some(v) = reader.next() {..} }`)
\* keeps calling both next() and is_finished().
PutStep(w) == SPReserve(w) \/ MPReserve(w) \/ WriteSlot(w) \/ Publish(w)

Fairness ==
    /\ \A w \in Writers : WF_vars(PutStep(w)) /\ WF_vars(DropWriter(w))
    /\ \A r \in Readers :
          SF_vars(ReaderNext(r)) /\ SF_vars(ReaderIsFinishedStep(r))

\* The drain scenario of the tests (lib.rs: mpsc_small_buffer_test): the
\* writers put and are dropped, one reader per split drains; no reader is
\* cloned and no handle is marked finished before it is dropped.
DrainNext ==
    \/ Split
    \/ \E w \in Writers :
          PutBegin(w) \/ PutStep(w) \/ DropWriter(w) \/ CloneWriter(w)
    \/ \E r \in Readers : ReaderNext(r) \/ ReaderIsFinishedStep(r)

FairSpec == Init /\ [][DrainNext]_vars /\ Fairness

\* The MP container on the narrow target, where the puts of a run take
\* next_write to usize::MAX: producers put and are dropped, readers read.
NarrowInit == Boot(NARROW_MAX) /\ variant = "MP"

NarrowNext ==
    \/ Split
    \/ \E w \in Writers :
          \/ PutBegin(w)
          \/ MPReserve(w)
          \/ WriteSlot(w)
          \/ Publish(w)
          \/ DropWriter(w)
          \/ CloneWriter(w)
    \/ \E r \in Readers : ReaderNext(r)

NarrowSpec == NarrowInit /\ [][NarrowNext]_vars

\* ================================================================ claims
\* the multiset of the elements of a sequence
SeqToBag(s) ==
    [v \in {s[i] : i \in DOMAIN s} |->
        Cardinality({i \in DOMAIN s : s[i] = v})]

AliveReaders == {r \in Readers : rstate[r] = "alive"}

\* C1: SP container, one writer that puts and then finishes, at most N values
\* put in total: when a reader's is_finished() returns true, the values its
\* successful next() calls returned are exactly the values put, in order.
C1_SPSequence ==
    \A r \in AliveReaders :
        (variant = "SP" /\ rret[r] = "true" /\ ~late_put
            /\ Len(produced) <= N)
        => robs[r] = produced

\* C1 witness: a reader of an SP container has been told it is finished
\* after collecting a full buffer of N values.
C1_Witness ==
    \E r \in AliveReaders :
        /\ variant = "SP" /\ rret[r] = "true" /\ ~late_put
        /\ Len(produced) = N /\ robs[r] = produced

\* C2: MP container, two writer handles, at most N values put in total: when
\* is_finished() returns true to a reader that has collected as many values as
\* were put, the multiset it collected is the multiset of the values put.
C2_MPMultiset ==
    \A r \in AliveReaders :
        (variant = "MP" /\ rret[r] = "true" /\ ~late_put
            /\ Cardinality(WritersEver) >= 2
            /\ Len(produced) <= N /\ Len(robs[r]) = Len(produced))
        => SeqToBag(robs[r]) = SeqToBag(produced)

\* C3: an is_finished() call made while every writer handle ever created
\* has been destroyed and the reader's cursor equals next_readable (in every
\* state from its first load to its return) returns true.
C3_FinishPredicate ==
    \A r \in AliveReaders :
        (rdrained[r] /\ rret[r] \in {"true", "false"}) => rret[r] = "true"

\* C3 witness: all of two MP writer handles are destroyed, values were put,
\* and is_finished() has returned true to a drained reader.
C3_Witness ==
    \E r \in AliveReaders :
        /\ variant = "MP" /\ Cardinality(WritersEver) = 2
        /\ AllWritersDestroyed /\ next_readable > 0
        /\ rdrained[r] /\ rret[r] = "true"

\* C5: MP container: is_finished() never returns true to a reader while a
\* writer handle exists that is neither dropped nor marked finished; stated
\* for the runs in which the writer handles have at no instant all been
\* finished, so that no evaluation of the two counters at one instant could
\* have found them equal.
C5_NoEarlyFinish ==
    [][\A r \in Readers :
          (variant = "MP" /\ rret[r] # "true" /\ rret'[r] = "true"
              /\ ~quiesced')
          => UnfinishedWriters' = {}]_vars

\* C4: under fair scheduling, with every writer handle dropped after its
\* finitely many puts, is_finished() eventually returns true to every reader
\* that keeps draining, whether or not the reader was overrun.
C4_DrainLiveness ==
    \A r \in Readers : (rstate[r] = "alive") ~> (rret[r] = "true")

\* C4 witness: is_finished() has returned true to a reader that was overrun
\* (more values were put than the buffer holds before it read the first).
C4_Witness ==
    \E r \in AliveReaders :
        /\ rret[r] = "true" /\ completed > N
        /\ Len(robs[r]) = completed /\ robs[r] # produced

\* a step of reader r that is a successful next()
NextSucceeds(r) == rpc[r] = "read" /\ rpc'[r] = "idle"

\* C6: a reader's cursor never decreases, it moves only in a successful
\* next() and then by exactly one, after which it is at most next_readable;
\* the number of values a reader has collected never exceeds the number of
\* puts that have completed.
C6_CursorProgress ==
    [][\A r \in Readers :
          /\ cursor'[r] >= cursor[r]
          /\ NextSucceeds(r) =>
                /\ cursor'[r] = cursor[r] + 1
                /\ cursor'[r] <= next_readable'
                /\ Len(robs'[r]) = Len(robs[r]) + 1
          /\ ~NextSucceeds(r) => cursor'[r] = cursor[r] /\ robs'[r] = robs[r]
          /\ Len(robs'[r]) <= completed']_vars

\* C6 witness: a reader has collected every value of three completed puts.
C6_Witness ==
    \E r \in AliveReaders :
        /\ rret[r] = "value" /\ cursor[r] = MaxPuts
        /\ Len(robs[r]) = completed

FinishedHandles ==
    {w \in Writers : wmarks[w] > 0 \/ wstate[w] = "dropped"}

\* C8: whatever explicit mark_as_finished calls a handle made before it was
\* dropped, the handle counts once: the MP finish_count is the number of
\* handles that were marked or dropped, and the SP is_finished flag is set
\* iff the writer was marked or dropped.
C8_MarkIdempotent ==
    /\ variant = "MP" => finish_count = Cardinality(FinishedHandles)
    /\ variant = "SP" => (is_finished <=> FinishedHandles # {})

\* C8 witness: an MP handle was marked finished twice and then dropped, and
\* finish_count is 1.
C8_Witness ==
    \E w \in Writers :
        /\ variant = "MP" /\ wstate[w] = "dropped" /\ wmarks[w] = MaxMarks
        /\ MaxMarks >= 2
        /\ finish_count = 1

\* a step in which reader r2 is cloned from an existing reader
ReaderCloned(r2) ==
    rstate[r2] = "none" /\ rstate'[r2] = "alive" /\ wstate' = wstate

\* a step of next() made by reader r
NextStepOf(r) ==
    \/ NextSucceeds(r)
    \/ rpc[r] = "idle" /\ rpc'[r] = "read"
    \/ rpc[r] = "idle" /\ rret[r] # "empty" /\ rret'[r] = "empty"

C10_EmptyRead ==
    [][\A r \in Readers :
          /\ (rpc[r] = "idle" /\ rpc'[r] = "read")
                => cursor[r] < next_readable
          /\ (rret[r] # "empty" /\ rret'[r] = "empty")
                => /\ cursor[r] >= next_readable
                   /\ cursor'[r] = cursor[r]
                   /\ robs'[r] = robs[r]
                   /\ rpc'[r] = "idle"
          /\ (rpc[r] = "idle" /\ rstate[r] = "alive"
                /\ cursor[r] >= next_readable)
                => rpc'[r] # "read"]_vars

\* C10 witness: a reader that has read every published value called next()
\* again and got empty, its cursor equal to next_readable.
C10_Witness ==
    \E r \in AliveReaders :
        /\ rret[r] = "empty" /\ cursor[r] = next_readable
        /\ next_readable > 0 /\ Len(robs[r]) = cursor[r]

\* the index (counted from 0) of the put whose value the successful next()
\* of reader r returns in this step: the k-th put call passes the value k
ReturnedPutIndex(r) == robs'[r][Len(robs'[r])] - 1

ReadsUnwritten(r) ==
    NextSucceeds(r) /\ data[SlotIndex(cursor[r])] = Uninit

\* C12: the publication-order hazard of the MP container.  That it is
\* reachable is C12_Witness; in every run without overrun a next() that
\* dereferences an unwritten slot is this hazard and nothing else: the
\* container is MP, the reader's cursor k is below next_readable, a producer
\* has reserved index k and not written it yet, and a put of another producer
\* has already run to its end.
C12_HazardIsPublicationOrder ==
    [][\A r \in Readers :
          (ReadsUnwritten(r) /\ Len(produced) <= N) =>
             /\ variant = "MP"
             /\ cursor[r] < next_readable
             /\ \E w \in Writers :
                   wpc[w] = "write" /\ curr_write_pos[w] = cursor[r]
             /\ completed >= 1]_vars

\* C12 witness: two producers and no overrun; a reader's next() at cursor k
\* has succeeded (it returned a value and moved the cursor to k + 1) while
\* the producer that reserved index k still has its slot write ahead of it
\* and the slot is still unwritten.
C12_Witness ==
    \E r \in AliveReaders : \E w \in Writers :
        /\ variant = "MP" /\ Cardinality(WritersEver) = 2
        /\ Len(produced) <= N
        /\ rret[r] = "value" /\ cursor[r] >= 1
        /\ wpc[w] = "write" /\ curr_write_pos[w] = cursor[r] - 1
        /\ data[SlotIndex(cursor[r] - 1)] = Uninit

\* the indices from lo (or 0) up to next_readable - 1 whose slot holds the
\* value of the put with that index
WindowHolds(lo) ==
    \A i \in (IF lo < 0 THEN 0 ELSE lo)..(next_readable - 1) :
        data[SlotIndex(i)] = produced[i + 1]

\* C13 as stated: SP container with its one writer: in every state, a later
\* put in progress or not, every index i with
\* max(0, next_readable - N) <= i < next_readable has the value of the i-th
\* put in slot i & (N - 1).
C13_PublishedWindow ==
    variant = "SP" => WindowHolds(next_readable - N)

\* C13 amended: the window starts at max(0, next_write - N): a put in
\* progress has advanced next_write before it overwrites the slot of index
\* next_readable - N, and that index is no longer in the window.
C13_ReservedWindow ==
    variant = "SP" => WindowHolds(next_write - N)

\* C13 witness: the put with index N has overwritten slot 0 and has not
\* published yet; the N - 1 younger published indices still hold their
\* values.
C13_Witness ==
    \E w \in Writers :
        /\ variant = "SP" /\ wpc[w] = "publish" /\ curr_write_pos[w] = N
        /\ next_readable = N /\ next_write = N + 1
        /\ data[SlotIndex(N)] = produced[N + 1]
        /\ data[SlotIndex(N - 1)] = produced[N]

\* the step of writer w that is the fetch_add at the end of its put
PublishStepOf(w) == wpc[w] = "publish" /\ wpc'[w] = "idle"

\* C14: SP container with its one writer: the fetch_add at the end of the
\* k-th put (k counted from 0) finds next_readable = k, which is the
\* position the put read from next_write, so the debug assertion holds and
\* the writer is not unwound; next_readable = next_write whenever no put is
\* in progress.
C14_SPPublication ==
    /\ []((variant = "SP" /\ \A w \in Writers : wpc[w] = "idle")
             => next_readable = next_write)
    /\ [][\A w \in Writers :
             (variant = "SP" /\ PublishStepOf(w)) =>
                /\ next_readable = wvalue[w] - 1
                /\ next_readable = completed
                /\ next_readable = curr_write_pos[w]
                /\ wstate'[w] = wstate[w]]_vars

\* C14 witness: a debug build of the SP container whose writer has completed
\* every put of the run and is still alive.
C14_Witness ==
    \E w \in Writers :
        /\ variant = "SP" /\ debug_assertions
        /\ wstate[w] = "alive" /\ wpc[w] = "idle"
        /\ completed = MaxPuts
        /\ next_readable = MaxPuts /\ next_write = MaxPuts

\* the writers whose put holds a reserved index it has not published yet
Reserving == {w \in Writers : wpc[w] \in {"write", "publish"}}

\* the step in which the compare_exchange of writer w's put succeeds
ReservesIn(w) == wpc[w] = "cas" /\ wpc'[w] = "write"

\* C15: MP container: a put reserves the index next_write and moves
\* next_write by exactly one, and no other step moves next_write, so the
\* indices reserved are 0, 1, ..., next_write - 1, each once: next_write is
\* the number of puts that have reserved, and the puts in progress hold
\* pairwise distinct indices below next_write.
C15_ReservationExclusive ==
    /\ [](variant = "MP" =>
            /\ next_write = completed + Cardinality(Reserving)
            /\ \A w \in Reserving : curr_write_pos[w] < next_write
            /\ \A w1, w2 \in Reserving :
                  w1 # w2 => curr_write_pos[w1] # curr_write_pos[w2])
    /\ [][variant = "MP" =>
            /\ \A w \in Writers :
                  ReservesIn(w) =>
                     /\ curr_write_pos'[w] = next_write
                     /\ next_write' = next_write + 1
            /\ (\A w \in Writers : ~ReservesIn(w))
                  => next_write' = next_write]_vars

\* C15 witness: two producers whose compare_exchange loops raced (one of
\* them failed and retried) hold the indices 0 and 1 at once.
C15_Witness ==
    \E w1, w2 \in Reserving :
        /\ variant = "MP" /\ next_write = 2 /\ completed = 0
        /\ curr_write_pos[w1] = 0 /\ curr_write_pos[w2] = 1
        /\ wvalue[w1] > wvalue[w2]

\* C16: MP container under fair scheduling: every put that has begun wins
\* the compare_exchange, writes its slot and does its fetch_add, and the run
\* settles with next_readable = next_write = the number of puts issued.
C16_EventualPublication ==
    /\ \A w \in Writers :
          (variant = "MP" /\ wpc[w] # "idle") ~> (wpc[w] = "idle")
    /\ <>[](variant = "MP" =>
              /\ next_readable = next_write
              /\ next_write = Len(produced))

\* C16 witness: two producers have issued every put of the run between them
\* and all of them are published.
C16_Witness ==
    /\ variant = "MP" /\ Cardinality(WritersEver) = 2
    /\ \A w \in Writers : wpc[w] = "idle"
    /\ Len(produced) = MaxPuts
    /\ next_readable = MaxPuts /\ next_write = MaxPuts
    /\ \A s \in Slots : data[s] # Uninit

\* C17: finished is terminal: a handle that was marked finished or dropped
\* publishes nothing more (no fetch_add of a put is made by a handle whose
\* finished flag is set), and from a state in which is_finished() has just
\* returned true to a reader, next_readable does not increase and a next()
\* of that reader returns empty.
C17_FinishedTerminal ==
    [][/\ \A w \in Writers : PublishStepOf(w) => ~finished[w]
       /\ \A r \in Readers :
             rret[r] = "true" =>
                /\ next_readable' = next_readable
                /\ NextStepOf(r) => rret'[r] = "empty"]_vars

\* the writers that are inside put
InPut == {w \in Writers : wpc[w] # "idle"}

\* C18: over every sequence of public operations on an SP container at most
\* one writer handle is ever bound to it, so no two executions of put
\* overlap and next_write is only ever stored by that one handle.
C18_SPSingleWriter ==
    variant = "SP" =>
        /\ Cardinality(WritersEver) <= 1
        /\ Cardinality(InPut) <= 1

\* writer w is inside put with the index usize::MAX reserved
ReservedAtMax(w) ==
    wpc[w] \in {"write", "publish"} /\ curr_write_pos[w] = usize_max

\* C19 as stated: with next_write at the maximum of the counter the
\* reservation loop of a put never ends: no put reserves there and goes on
\* to its slot write.
C19_SaturationSpins ==
    \A w \in Writers : ~(next_write = usize_max /\ ReservedAtMax(w))

\* C19 amended: with next_write at the maximum, saturating_add leaves
\* next_write_pos at the maximum and the compare_exchange from the maximum
\* to the maximum succeeds: a put that has loaded the maximum reserves at its
\* next attempt (the attempt cannot fail), a put that had loaded less fails
\* once and takes the maximum; the put that reserves gets the index
\* usize::MAX (again), goes on to its slot write, and next_write stays at the
\* maximum.
C19_SaturationReservesAgain ==
    /\ [](\A w \in Writers :
            (next_write = usize_max /\ wpc[w] = "cas"
                /\ curr_write_pos[w] = usize_max)
            => /\ ENABLED (MPReserve(w) /\ wpc'[w] = "write")
               /\ ~ENABLED (MPReserve(w) /\ wpc'[w] = "cas"))
    /\ [][next_write = usize_max =>
            /\ next_write' = usize_max
            /\ \A w \in Writers :
                  /\ ReservesIn(w) => curr_write_pos'[w] = usize_max
                  /\ (wpc[w] = "cas" /\ wpc'[w] = "cas"
                        /\ curr_write_pos'[w] # curr_write_pos[w])
                        => curr_write_pos'[w] = usize_max]_vars

\* C19 witness: the put issued after next_write reached the maximum has run
\* to its end: it wrote slot usize::MAX & (N - 1), and its fetch_add wrapped
\* next_readable around to 0.
C19_Witness ==
    /\ next_write = usize_max /\ usize_max = NARROW_MAX
    /\ completed = usize_max + 1
    /\ \A w \in Writers : wpc[w] = "idle"
    /\ data[SlotIndex(usize_max)] = usize_max + 1
    /\ next_readable = 0

\* C20: MP container, after any sequence of split, writer clone,
\* mark_as_finished and drop: finish_count <= producer_count, their
\* difference is the number of writer handles that exist and have not
\* finished, and the two counters are equal exactly when there is no such
\* handle.
C20_FinishAccounting ==
    variant = "MP" =>
        /\ finish_count <= producer_count
        /\ producer_count - finish_count = Cardinality(UnfinishedWriters)
        /\ MPIsFinished(producer_count, finish_count)
              <=> UnfinishedWriters = {}

\* C20 witness: of two registered producers one was marked finished twice
\* and is not dropped yet, the other (a clone) is unfinished: the counters
\* are 2 and 1.
C20_Witness ==
    \E w1, w2 \in Writers :
        /\ variant = "MP" /\ producer_count = 2 /\ finish_count = 1
        /\ wstate[w1] = "alive" /\ finished[w1] /\ wmarks[w1] = MaxMarks
        /\ wstate[w2] = "alive" /\ ~finished[w2]

====
